---- MODULE Spec2Model ----
(***************************************************************************)
(* A model of src/main.py: the scheduler at the bottom of the file, the    *)
(* export_job run it drives, the filename templater format_filename and    *)
(* the two delivery functions save_local and upload_sftp.                  *)
(*                                                                         *)
(* Python strings are sequences of one-character strings, indexed from 0   *)
(* by the helpers below exactly as str.find / slicing index them.  None is *)
(* the one-element sequence <<"<None>">>, which no character string equals.*)
(***************************************************************************)
EXTENDS Integers, Sequences, FiniteSets, TLC

VARIABLES
    env,              \* the process environment (os.getenv), fixed at start
    pc,               \* position of the __main__ block
    interval_minutes, \* __main__'s interval_minutes; 0 stands for None/unbound
    registered,       \* schedule.every(N).minutes.do(export_job) was called
    elapsed,          \* minutes slept since the recurrence was last (re)armed
    startRuns,        \* export_job calls made by lines 269 and 274
    ticks,            \* export_job calls made by schedule.run_pending()
    jpc,              \* position inside the export_job call in flight
    output_format,    \* export_job locals
    delivery_method,
    conn,             \* "none" | "open" | "closed"
    df,               \* "unset" | "None" | "empty" | "rows"
    file_extension,
    filename,
    success,
    exc,              \* exception propagating out of export_job: [type, origin]
    calls,            \* functions export_job has called in the current run
    connFailed,       \* get_connection returned None in the current run
    queried,          \* connection.execute ran in the current run
    delivered,        \* artifacts written (locally or remotely) in the current run
    fn,               \* format_filename's frame (stepwise expansion)
    sf                \* upload_sftp's frame and the remote server

mainVars == <<env, pc, interval_minutes, registered, elapsed, startRuns, ticks>>
jobVars == <<jpc, output_format, delivery_method, conn, df, file_extension,
             filename, success, exc, calls, connFailed, queried, delivered>>
vars == <<mainVars, jobVars, fn, sf>>

-----------------------------------------------------------------------------
(* Bounds of the model *)

\* scheduled runs followed before the model stops following the loop
MaxTicks == 2
\* fragments concatenated into a filename pattern
MaxFrags == 4
\* components of a configured remote path
MaxParts == 2

-----------------------------------------------------------------------------
(* Python values and string operations *)

None == <<"<None>">>

Min(S) == CHOOSE x \in S : \A y \in S : x <= y

\* s[a:b]
Slice(s, a, b) == SubSeq(s, a + 1, b)

StartsAt(s, sub, i) ==
    /\ i + Len(sub) <= Len(s)
    /\ SubSeq(s, i + 1, i + Len(sub)) = sub

\* s.find(sub, start)
Find(s, sub, start) ==
    LET hits == {i \in start..(Len(s) - Len(sub)) : StartsAt(s, sub, i)}
    IN  IF hits = {} THEN -1 ELSE Min(hits)

\* sub in s
Contains(s, sub) == Find(s, sub, 0) # -1

\* s.replace(old, new): every non-overlapping occurrence, left to right
RECURSIVE Replace(_, _, _)
Replace(s, old, new) ==
    LET i == Find(s, old, 0)
    IN  IF i = -1 THEN s
        ELSE Slice(s, 0, i) \o new
                \o Replace(Slice(s, i + Len(old), Len(s)), old, new)

UpperToLower ==
    [c \in {"C", "S", "V", "P", "D", "F", "I", "E", "T", "X", "M", "L"} |->
        CASE c = "C" -> "c" [] c = "S" -> "s" [] c = "V" -> "v"
          [] c = "P" -> "p" [] c = "D" -> "d" [] c = "F" -> "f"
          [] c = "I" -> "i" [] c = "E" -> "e" [] c = "T" -> "t"
          [] c = "X" -> "x" [] c = "M" -> "m" [] c = "L" -> "l"]

\* s.lower()
Lower(s) ==
    [i \in 1..Len(s) |->
        IF s[i] \in DOMAIN UpperToLower THEN UpperToLower[s[i]] ELSE s[i]]

\* os.getenv(name, default)
Getenv(value, default) == IF value = None THEN default ELSE value

Digits == {"0", "1", "2", "3", "4", "5", "6", "7", "8", "9"}

DigitVal(c) ==
    CASE c = "0" -> 0 [] c = "1" -> 1 [] c = "2" -> 2 [] c = "3" -> 3
      [] c = "4" -> 4 [] c = "5" -> 5 [] c = "6" -> 6 [] c = "7" -> 7
      [] c = "8" -> 8 [] c = "9" -> 9

RECURSIVE DecVal(_)
DecVal(s) ==
    IF s = <<>> THEN 0
    ELSE 10 * DecVal(SubSeq(s, 1, Len(s) - 1)) + DigitVal(s[Len(s)])

RECURSIVE StripSpaces(_)
StripSpaces(s) ==
    IF s # <<>> /\ s[1] = " " THEN StripSpaces(Tail(s))
    ELSE IF s # <<>> /\ s[Len(s)] = " "
         THEN StripSpaces(SubSeq(s, 1, Len(s) - 1))
         ELSE s

\* int(s): surrounding blanks, an optional sign, then one or more digits;
\* TypeError for None, ValueError for anything else
IntParse(s) ==
    IF s = None THEN [ok |-> FALSE, err |-> "TypeError", val |-> 0]
    ELSE LET t == StripSpaces(s)
             signed == t # <<>> /\ t[1] \in {"-", "+"}
             body == IF signed THEN Tail(t) ELSE t
         IN  IF body # <<>> /\ \A i \in 1..Len(body) : body[i] \in Digits
             THEN [ok |-> TRUE, err |-> "",
                   val |-> IF signed /\ t[1] = "-" THEN 0 - DecVal(body)
                           ELSE DecVal(body)]
             ELSE [ok |-> FALSE, err |-> "ValueError", val |-> 0]

-----------------------------------------------------------------------------
(* format_filename (lines 51-72) *)

Opener == <<"{", "t", "i", "m", "e", "s", "t", "a", "m", "p", ":">>
Closer == <<"}">>
ExtPlaceholder == <<"{", "e", "x", "t", "}">>
InvalidToken ==
    <<"i", "n", "v", "a", "l", "i", "d", "_", "t", "i", "m", "e", "s", "t",
      "a", "m", "p", "_", "f", "o", "r", "m", "a", "t">>

\* now = datetime.now(), captured once per call (line 53); the fields the
\* model's directives read
Now == [Y |-> <<"2", "0", "2", "4">>, m |-> <<"1", "1">>, d |-> <<"0", "5">>]

\* now.strftime(code).  A '%' that starts no known directive is copied by a
\* lenient C library and is a ValueError on a strict one.
RECURSIVE Strftime(_, _)
Strftime(code, strict) ==
    IF code = <<>> THEN [ok |-> TRUE, out |-> <<>>]
    ELSE IF code[1] # "%"
    THEN LET r == Strftime(Tail(code), strict)
         IN  [ok |-> r.ok, out |-> <<code[1]>> \o r.out]
    ELSE IF Len(code) >= 2 /\ code[2] \in {"Y", "m", "d", "%"}
    THEN LET r == Strftime(SubSeq(code, 3, Len(code)), strict)
             e == CASE code[2] = "Y" -> Now.Y
                    [] code[2] = "m" -> Now.m
                    [] code[2] = "d" -> Now.d
                    [] code[2] = "%" -> <<"%">>
         IN  [ok |-> r.ok, out |-> e \o r.out]
    ELSE IF strict THEN [ok |-> FALSE, out |-> <<>>]
    ELSE LET r == Strftime(Tail(code), strict)
         IN  [ok |-> r.ok, out |-> <<"%">> \o r.out]

\* f'{{timestamp:{format_code}}}' (lines 65 and 69)
Placeholder(format_code) == Opener \o format_code \o Closer

\* lines 57-69 with the '}' left out of the text that replace looks for
LoopBodyKeepsBrace(formatted_pattern, strict) ==
    LET start_index == Find(formatted_pattern, Opener, 0) + Len(Opener)
        end_index == Find(formatted_pattern, Closer, start_index)
    IN  IF end_index = -1
        THEN [brk |-> TRUE, out |-> formatted_pattern]
        ELSE LET format_code == Slice(formatted_pattern, start_index, end_index)
                 ts == Strftime(format_code, strict)
             IN  [brk |-> FALSE,
                  out |-> Replace(formatted_pattern, Opener \o format_code,
                                  IF ts.ok THEN ts.out ELSE InvalidToken)]

\* One pass of the while body (lines 57-69) over a string that contains the
\* opener: brk is the break of line 61.
LoopBody(formatted_pattern, strict) ==
    LET start_index == Find(formatted_pattern, Opener, 0) + Len(Opener)
        end_index == Find(formatted_pattern, Closer, start_index)
    IN  IF end_index = -1
        THEN [brk |-> TRUE, out |-> formatted_pattern]
        ELSE LET format_code == Slice(formatted_pattern, start_index, end_index)
                 ts == Strftime(format_code, strict)
             IN  [brk |-> FALSE,
                  out |-> Replace(formatted_pattern, Placeholder(format_code),
                                  IF ts.ok THEN ts.out ELSE InvalidToken)]

\* format_filename(pattern), the whole call
RECURSIVE FormatFilename(_, _)
FormatFilename(pattern, strict) ==
    IF ~Contains(pattern, Opener) THEN pattern
    ELSE LET b == LoopBody(pattern, strict)
         IN  IF b.brk THEN pattern ELSE FormatFilename(b.out, strict)

CsvExt == <<"c", "s", "v">>
TxtExt == <<"t", "x", "t">>
PdfExt == <<"p", "d", "f">>
CsvFmt == <<"c", "s", "v">>
PipeFmt == <<"p", "i", "p", "e">>
PdfFmt == <<"p", "d", "f">>
LocalMethod == <<"l", "o", "c", "a", "l">>
SftpMethod == <<"s", "f", "t", "p">>

FnIdle == [pc |-> "idle", pattern |-> <<>>, strict |-> FALSE,
           formatted_pattern |-> <<>>, iters |-> 0, warned |-> FALSE,
           ext |-> <<>>, filename |-> <<>>]

SfIdle == [pc |-> "idle"]

-----------------------------------------------------------------------------
(* The environment the process starts with *)

IntervalValues ==
    { None, <<"a", "b", "c">>, <<"0">>, <<"-", "3">>, <<"1">>, <<" ", "2">> }

FormatValues ==
    { None, <<"C", "S", "V">>, <<"P", "i", "p", "e">>, <<"p", "d", "f">>,
      <<"x", "m", "l">>, <<>> }

MethodValues == { None, <<"S", "F", "T", "P">>, <<"f", "t", "p">> }

PortValues == { None, <<"a", "b", "c">> }

DefaultPattern ==
    <<"q", "_">> \o Opener \o <<"%", "Y", "}", ".">> \o ExtPlaceholder

Environments ==
    [ interval : IntervalValues,
      sql_query : BOOLEAN,       \* SQL_QUERY is set and not empty
      db_url : BOOLEAN,          \* DB_URL is set and not empty
      output_format : FormatValues,
      delivery_method : MethodValues,
      sftp_port : PortValues,
      sftp_cfg : BOOLEAN,        \* host, user, password and remote path all set
      pattern : {DefaultPattern},
      strict : {FALSE} ]

NoExc == [type |-> "none", origin |-> "none"]

JobIdle ==
    /\ jpc = "idle"
    /\ output_format = <<>>
    /\ delivery_method = <<>>
    /\ conn = "none"
    /\ df = "unset"
    /\ file_extension = <<>>
    /\ filename = <<>>
    /\ success = FALSE
    /\ exc = NoExc
    /\ calls = {}
    /\ connFailed = FALSE
    /\ queried = FALSE
    /\ delivered = {}

Init ==
    /\ env \in Environments
    /\ pc = "start"
    /\ interval_minutes = 0
    /\ registered = FALSE
    /\ elapsed = 0
    /\ startRuns = 0
    /\ ticks = 0
    /\ JobIdle
    /\ fn = FnIdle
    /\ sf = SfIdle

-----------------------------------------------------------------------------
(* export_job (lines 188-257), one action per step *)

\* the call itself: a fresh frame (line 190)
EnterJob ==
    /\ jpc' = "config"
    /\ output_format' = <<>>
    /\ delivery_method' = <<>>
    /\ conn' = "none"
    /\ df' = "unset"
    /\ file_extension' = <<>>
    /\ filename' = <<>>
    /\ success' = FALSE
    /\ exc' = NoExc
    /\ calls' = {}
    /\ connFailed' = FALSE
    /\ queried' = FALSE
    /\ delivered' = {}

\* lines 193-203
GetConfig ==
    /\ jpc = "config"
    /\ output_format' = Lower(Getenv(env.output_format, CsvFmt))
    /\ delivery_method' = Lower(Getenv(env.delivery_method, LocalMethod))
    /\ jpc' = IF env.sql_query THEN "connect" ELSE "returned"
    /\ UNCHANGED <<conn, df, file_extension, filename, success, exc, calls,
                   connFailed, queried, delivered>>
    /\ UNCHANGED <<mainVars, fn, sf>>

\* lines 206-209 with get_connection (lines 23-36)
GetConnection ==
    /\ jpc = "connect"
    /\ calls' = calls \cup {"get_connection"}
    /\ \E connected \in BOOLEAN :
          IF env.db_url /\ connected
          THEN /\ conn' = "open"
               /\ connFailed' = FALSE
               /\ jpc' = "fetch"
          ELSE /\ conn' = "none"
               /\ connFailed' = TRUE
               /\ jpc' = "returned"
    /\ UNCHANGED <<output_format, delivery_method, df, file_extension,
                   filename, success, exc, queried, delivered>>
    /\ UNCHANGED <<mainVars, fn, sf>>

\* line 211 with fetch_data (lines 38-49): the query's exception is caught
\* inside fetch_data and becomes None
FetchDataRaises ==
    /\ jpc = "fetch"
    /\ calls' = calls \cup {"fetch_data"}
    /\ queried' = TRUE
    /\ \E r \in {"None", "empty", "rows"} :
          IF r = "None"
          THEN /\ df' = df
               /\ exc' = [type |-> "Exception", origin |-> "fetch_data"]
               /\ jpc' = "raised"
          ELSE /\ df' = r
               /\ exc' = exc
               /\ jpc' = "close"
    /\ UNCHANGED <<output_format, delivery_method, conn, file_extension,
                   filename, success, connFailed, delivered>>
    /\ UNCHANGED <<mainVars, fn, sf>>

FetchData ==
    /\ jpc = "fetch"
    /\ conn = "open"
    /\ calls' = calls \cup {"fetch_data"}
    /\ queried' = TRUE
    /\ \E r \in {"None", "empty", "rows"} : df' = r
    /\ jpc' = "close"
    /\ UNCHANGED <<output_format, delivery_method, conn, file_extension,
                   filename, success, exc, connFailed, delivered>>
    /\ UNCHANGED <<mainVars, fn, sf>>

\* lines 212-219
CloseConnection ==
    /\ jpc = "close"
    /\ conn' = "closed"
    /\ jpc' = IF df = "None" THEN "returned" ELSE "format"
    /\ UNCHANGED <<output_format, delivery_method, df, file_extension,
                   filename, success, exc, calls, connFailed, queried,
                   delivered>>
    /\ UNCHANGED <<mainVars, fn, sf>>

\* lines 222-239 with the final else falling through to the filename step
FormatDataNoAbort ==
    /\ jpc = "format"
    /\ file_extension' = IF output_format = CsvFmt THEN CsvExt
                         ELSE IF output_format = PdfFmt THEN PdfExt
                         ELSE TxtExt
    /\ jpc' = "filename"
    /\ UNCHANGED <<output_format, delivery_method, conn, df, filename,
                   success, exc, calls, connFailed, queried, delivered>>
    /\ UNCHANGED <<mainVars, fn, sf>>

\* lines 222-239; create_pdf (lines 74-105) can raise out of doc.build
FormatData ==
    /\ jpc = "format"
    /\ \/ /\ output_format = CsvFmt
          /\ file_extension' = CsvExt
          /\ jpc' = "filename"
          /\ UNCHANGED <<exc, calls>>
       \/ /\ output_format = PipeFmt
          /\ file_extension' = TxtExt
          /\ jpc' = "filename"
          /\ UNCHANGED <<exc, calls>>
       \/ /\ output_format = PdfFmt
          /\ calls' = calls \cup {"create_pdf"}
          /\ \E built \in BOOLEAN :
                IF built
                THEN /\ file_extension' = PdfExt
                     /\ jpc' = "filename"
                     /\ exc' = exc
                ELSE /\ file_extension' = PdfExt
                     /\ jpc' = "raised"
                     /\ exc' = [type |-> "LayoutError", origin |-> "create_pdf"]
       \/ /\ output_format \notin {CsvFmt, PipeFmt, PdfFmt}
          /\ file_extension' = TxtExt
          /\ jpc' = "returned"
          /\ UNCHANGED <<exc, calls>>
    /\ UNCHANGED <<output_format, delivery_method, conn, df, filename,
                   success, connFailed, queried, delivered>>
    /\ UNCHANGED <<mainVars, fn, sf>>

\* lines 242-243
GenerateFilename ==
    /\ jpc = "filename"
    /\ calls' = calls \cup {"format_filename"}
    /\ filename' = Replace(FormatFilename(env.pattern, env.strict),
                           ExtPlaceholder, file_extension)
    /\ jpc' = "deliver"
    /\ UNCHANGED <<output_format, delivery_method, conn, df, file_extension,
                   success, exc, connFailed, queried, delivered>>
    /\ UNCHANGED <<mainVars, fn, sf>>

\* lines 246-252.  save_local (lines 107-122): os.makedirs stands before the
\* try, so its OSError leaves save_local; open/write errors become False.
\* upload_sftp (lines 124-184) as export_job sees it: int(SFTP_PORT) stands
\* before the try, so its ValueError leaves upload_sftp; every later failure
\* becomes False.
Deliver ==
    /\ jpc = "deliver"
    /\ \/ /\ delivery_method = LocalMethod
          /\ calls' = calls \cup {"save_local"}
          /\ \E outcome \in {"makedirs_error", "write_error", "saved"} :
                /\ exc' = IF outcome = "makedirs_error"
                          THEN [type |-> "OSError", origin |-> "save_local"]
                          ELSE exc
                /\ jpc' = IF outcome = "makedirs_error" THEN "raised"
                          ELSE "finish"
                /\ success' = (outcome = "saved")
                /\ delivered' = IF outcome = "saved"
                                THEN delivered \cup
                                       {[where |-> "local", name |-> filename]}
                                ELSE delivered
       \/ /\ delivery_method = SftpMethod
          /\ calls' = calls \cup {"upload_sftp"}
          /\ LET port == IF env.sftp_port = None
                         THEN [ok |-> TRUE, err |-> "", val |-> 22]
                         ELSE IntParse(env.sftp_port)
             IN  IF ~port.ok
                 THEN /\ exc' = [type |-> port.err, origin |-> "upload_sftp"]
                      /\ jpc' = "raised"
                      /\ UNCHANGED <<success, delivered>>
                 ELSE /\ exc' = exc
                      /\ jpc' = "finish"
                      /\ \E uploaded \in BOOLEAN :
                            /\ success' = (env.sftp_cfg /\ uploaded)
                            /\ delivered' =
                                 IF env.sftp_cfg /\ uploaded
                                 THEN delivered \cup
                                        {[where |-> "sftp", name |-> filename]}
                                 ELSE delivered
       \/ /\ delivery_method \notin {LocalMethod, SftpMethod}
          /\ jpc' = "finish"
          /\ success' = FALSE
          /\ UNCHANGED <<exc, calls, delivered>>
    /\ UNCHANGED <<output_format, delivery_method, conn, df, file_extension,
                   filename, connFailed, queried>>
    /\ UNCHANGED <<mainVars, fn, sf>>

\* lines 254-257
Finish ==
    /\ jpc = "finish"
    /\ jpc' = "returned"
    /\ UNCHANGED <<output_format, delivery_method, conn, df, file_extension,
                   filename, success, exc, calls, connFailed, queried,
                   delivered>>
    /\ UNCHANGED <<mainVars, fn, sf>>

-----------------------------------------------------------------------------
(* __main__ (lines 261-281) *)

\* lines 262-266 without the test of line 265
ParseIntervalNoSignCheck ==
    /\ pc = "start"
    /\ LET r == IntParse(env.interval)
       IN  IF r.ok
           THEN /\ interval_minutes' = r.val
                /\ pc' = "cold_run"
           ELSE /\ interval_minutes' = 0
                /\ pc' = "except_run"
    /\ startRuns' = startRuns + 1
    /\ EnterJob
    /\ UNCHANGED <<env, registered, elapsed, ticks, fn, sf>>

\* lines 262-269, or 262-266 and 272-274: int() and the sign test, then the
\* export_job call of the branch taken
ParseInterval ==
    /\ pc = "start"
    /\ LET r == IntParse(env.interval)
       IN  IF r.ok /\ r.val > 0
           THEN /\ interval_minutes' = r.val
                /\ pc' = "cold_run"
           ELSE /\ interval_minutes' = IF r.ok THEN r.val ELSE 0
                /\ pc' = "except_run"
    /\ startRuns' = startRuns + 1
    /\ EnterJob
    /\ UNCHANGED <<env, registered, elapsed, ticks, fn, sf>>

\* line 271 after the call of line 269 returned
Register ==
    /\ pc = "cold_run"
    /\ jpc = "returned"
    /\ registered' = TRUE
    /\ elapsed' = 0
    /\ pc' = "check_interval"
    /\ jpc' = "idle"
    /\ UNCHANGED <<env, interval_minutes, startRuns, ticks>>
    /\ UNCHANGED <<output_format, delivery_method, conn, df, file_extension,
                   filename, success, exc, calls, connFailed, queried,
                   delivered, fn, sf>>

\* lines 272-274: the call of line 269 raised inside the try.  A TypeError or
\* ValueError is caught by the handler meant for int(), which calls
\* export_job again; anything else ends the process.
ColdRunRaised ==
    /\ pc = "cold_run"
    /\ jpc = "raised"
    /\ IF exc.type \in {"TypeError", "ValueError"}
       THEN /\ pc' = "except_run"
            /\ startRuns' = startRuns + 1
            /\ EnterJob
       ELSE /\ pc' = "crashed"
            /\ UNCHANGED <<startRuns, jobVars>>
    /\ UNCHANGED <<env, interval_minutes, registered, elapsed, ticks, fn, sf>>

\* line 275 after the call of line 274 returned
ExceptRunReturned ==
    /\ pc = "except_run"
    /\ jpc = "returned"
    /\ interval_minutes' = 0
    /\ pc' = "check_interval"
    /\ jpc' = "idle"
    /\ UNCHANGED <<env, registered, elapsed, startRuns, ticks>>
    /\ UNCHANGED <<output_format, delivery_method, conn, df, file_extension,
                   filename, success, exc, calls, connFailed, queried,
                   delivered, fn, sf>>

\* the call of line 274 raised: nothing catches it
ExceptRunRaised ==
    /\ pc = "except_run"
    /\ jpc = "raised"
    /\ pc' = "crashed"
    /\ UNCHANGED <<env, interval_minutes, registered, elapsed, startRuns,
                   ticks, jobVars, fn, sf>>

\* line 278
CheckInterval ==
    /\ pc = "check_interval"
    /\ pc' = IF interval_minutes # 0 THEN "run_pending" ELSE "exited"
    /\ UNCHANGED <<env, interval_minutes, registered, elapsed, startRuns,
                   ticks, jobVars, fn, sf>>

\* line 280: schedule.run_pending() calls export_job when the interval has
\* passed since the recurrence was armed
RunPending ==
    /\ pc = "run_pending"
    /\ IF registered /\ elapsed >= interval_minutes
       THEN /\ ticks < MaxTicks
            /\ ticks' = ticks + 1
            /\ pc' = "tick_run"
            /\ EnterJob
       ELSE /\ pc' = "sleep"
            /\ UNCHANGED <<ticks, jobVars>>
    /\ UNCHANGED <<env, interval_minutes, registered, elapsed, startRuns,
                   fn, sf>>

\* the scheduled call returned: the job is re-armed and run_pending returns
TickReturned ==
    /\ pc = "tick_run"
    /\ jpc = "returned"
    /\ elapsed' = 0
    /\ pc' = "sleep"
    /\ jpc' = "idle"
    /\ UNCHANGED <<env, interval_minutes, registered, startRuns, ticks>>
    /\ UNCHANGED <<output_format, delivery_method, conn, df, file_extension,
                   filename, success, exc, calls, connFailed, queried,
                   delivered, fn, sf>>

\* the scheduled call raised: run_pending does not catch, nor does the loop
TickRaised ==
    /\ pc = "tick_run"
    /\ jpc = "raised"
    /\ pc' = "crashed"
    /\ UNCHANGED <<env, interval_minutes, registered, elapsed, startRuns,
                   ticks, jobVars, fn, sf>>

\* line 281
Sleep ==
    /\ pc = "sleep"
    /\ elapsed' = IF elapsed < interval_minutes THEN elapsed + 1 ELSE elapsed
    /\ pc' = "run_pending"
    /\ UNCHANGED <<env, interval_minutes, registered, startRuns, ticks,
                   jobVars, fn, sf>>

Next ==
    \/ ParseInterval
    \/ GetConfig
    \/ GetConnection
    \/ FetchData
    \/ CloseConnection
    \/ FormatData
    \/ GenerateFilename
    \/ Deliver
    \/ Finish
    \/ Register
    \/ ColdRunRaised
    \/ ExceptRunReturned
    \/ ExceptRunRaised
    \/ CheckInterval
    \/ RunPending
    \/ TickReturned
    \/ TickRaised
    \/ Sleep

Spec == Init /\ [][Next]_vars

-----------------------------------------------------------------------------
(* Properties of the scheduler and of export_job, checked under Spec *)

PositiveInterval ==
    /\ IntParse(env.interval).ok
    /\ IntParse(env.interval).val > 0

InvalidInterval == ~PositiveInterval

\* C1: with a positive SCHEDULE_INTERVAL_MINUTES, export_job is called once
\* at start-up, the recurrence is registered and the loop is entered whatever
\* the run's outcome: no second start-up run, no fall-back to single-shot
\* mode, no exit and no crash of the process.
C1_ScheduleSurvivesAnyRun ==
    PositiveInterval =>
        /\ startRuns <= 1
        /\ pc \notin {"except_run", "exited", "crashed"}
        /\ (pc \in {"run_pending", "sleep", "tick_run"} => registered)

\* C2: with a missing, non-numeric or non-positive interval export_job is
\* called exactly once, nothing is registered and the loop is never entered.
C2_InvalidIntervalIsSingleShot ==
    InvalidInterval =>
        /\ startRuns <= 1
        /\ ~registered
        /\ ticks = 0
        /\ pc \notin {"cold_run", "run_pending", "sleep", "tick_run"}
        /\ (pc \in {"check_interval", "exited", "crashed"} => startRuns = 1)

C2_Witness ==
    /\ env.interval = <<"-", "3">>
    /\ pc = "exited"
    /\ startRuns = 1
    /\ jpc = "idle"
    /\ ~registered

\* C3: no exception leaves save_local or upload_sftp: export_job always gets
\* a boolean back from the delivery call.
C3_DeliveryNeverRaises ==
    exc.origin \notin {"save_local", "upload_sftp"}

\* C4: a connection that was opened is closed right after the fetch step,
\* query failed or not, before formatting, templating and delivery; no run
\* ends with it open; no query runs when the connection attempt failed.
C4_ConnectionClosedAfterFetch ==
    /\ conn = "open" => jpc \in {"fetch", "close"}
    /\ jpc \in {"format", "filename", "deliver", "finish"} => conn = "closed"
    /\ jpc \in {"returned", "raised", "idle"} => conn # "open"
    /\ queried => conn # "none"
    /\ connFailed => ~queried /\ conn = "none"

C4_Witness ==
    /\ jpc = "returned"
    /\ queried
    /\ df = "None"
    /\ conn = "closed"

UnrecognizedFormat ==
    Lower(Getenv(env.output_format, CsvFmt)) \notin {CsvFmt, PipeFmt, PdfFmt}

\* C6: with an OUTPUT_FORMAT other than csv, pipe or pdf (in any letter
\* case), whatever the delivery method, a run calls none of format_filename,
\* save_local, upload_sftp, and writes and uploads nothing.
C6_UnknownFormatDeliversNothing ==
    UnrecognizedFormat =>
        /\ calls \cap {"format_filename", "save_local", "upload_sftp"} = {}
        /\ delivered = {}
        /\ jpc \notin {"filename", "deliver", "finish"}

C6_Witness ==
    /\ env.output_format = <<"x", "m", "l">>
    /\ env.delivery_method = <<"S", "F", "T", "P">>
    /\ df = "rows"
    /\ conn = "closed"
    /\ jpc = "returned"

-----------------------------------------------------------------------------
(* format_filename run step by step over bounded patterns, followed by the *)
(* {ext} replacement export_job applies to its result (line 243)           *)

Frags == { Opener, Closer, <<"%", "Y">>, <<"%">>, ExtPlaceholder, <<"a">> }

RECURSIVE Concats(_)
Concats(n) ==
    IF n = 0 THEN { <<>> }
    ELSE LET shorter == Concats(n - 1)
         IN  shorter \cup { p \o f : p \in shorter, f \in Frags }

QuietEnv ==
    [ interval |-> None, sql_query |-> FALSE, db_url |-> FALSE,
      output_format |-> None, delivery_method |-> None, sftp_port |-> None,
      sftp_cfg |-> FALSE, pattern |-> DefaultPattern, strict |-> FALSE ]

MainOff ==
    /\ env = QuietEnv
    /\ pc = "off"
    /\ interval_minutes = 0
    /\ registered = FALSE
    /\ elapsed = 0
    /\ startRuns = 0
    /\ ticks = 0
    /\ JobIdle

InitFilename ==
    /\ MainOff
    /\ sf = SfIdle
    /\ \E p \in Concats(MaxFrags), s \in BOOLEAN, e \in {CsvExt, PdfExt} :
          fn = [pc |-> "call", pattern |-> p, strict |-> s,
                formatted_pattern |-> <<>>, iters |-> 0, warned |-> FALSE,
                ext |-> e, filename |-> <<>>]

\* lines 53-55
FnEnter ==
    /\ fn.pc = "call"
    /\ fn' = [fn EXCEPT !.pc = "loop", !.formatted_pattern = fn.pattern]
    /\ UNCHANGED <<mainVars, jobVars, sf>>

\* the test of line 56 and one pass of lines 57-69
FnIterate ==
    /\ fn.pc = "loop"
    /\ IF ~Contains(fn.formatted_pattern, Opener)
       THEN fn' = [fn EXCEPT !.pc = "return"]
       ELSE LET b == LoopBody(fn.formatted_pattern, fn.strict)
            IN  IF b.brk
                THEN fn' = [fn EXCEPT !.pc = "return", !.warned = TRUE]
                ELSE fn' = [fn EXCEPT !.formatted_pattern = b.out,
                                      !.iters = fn.iters + 1]
    /\ UNCHANGED <<mainVars, jobVars, sf>>

\* line 72, then line 243 in export_job
FnReturn ==
    /\ fn.pc = "return"
    /\ fn' = [fn EXCEPT !.pc = "done",
                        !.filename = Replace(fn.formatted_pattern,
                                             ExtPlaceholder, fn.ext)]
    /\ UNCHANGED <<mainVars, jobVars, sf>>

NextFilename ==
    \/ FnEnter
    \/ FnIterate
    \/ FnReturn

SpecFilename == InitFilename /\ [][NextFilename]_vars

CountOf(s, c) == Cardinality({i \in 1..Len(s) : s[i] = c})

\* C9: format_filename terminates: a pass of the loop that does not break
\* leaves strictly fewer '}' in the working string, also when the expansion
\* itself contains '{timestamp:'.
C9_EachPassRemovesABrace ==
    [][ (fn.pc = "loop" /\ fn'.pc = "loop")
            => CountOf(fn'.formatted_pattern, "}")
                   < CountOf(fn.formatted_pattern, "}") ]_vars

\* a pass whose expansion is the text '{timestamp:2024'
C9_Witness ==
    /\ fn.pc = "loop"
    /\ fn.iters = 1
    /\ fn.pattern = Opener \o Opener \o <<"%", "Y", "}">>
    /\ fn.formatted_pattern = Opener \o Now.Y

\* positions at or after i where a placeholder ({timestamp:...} or {ext}) opens
OpenersAfter(p, i) ==
    {j \in i..Len(p) : StartsAt(p, Opener, j) \/ StartsAt(p, ExtPlaceholder, j)}

UnclosedAt(p, i) ==
    /\ StartsAt(p, Opener, i)
    /\ LET from == i + Len(Opener)
           close == Find(p, Closer, from)
           nexts == OpenersAfter(p, from)
       IN  \/ close = -1
           \/ nexts # {} /\ Min(nexts) < close

Malformed(p) == {i \in 0..Len(p) : UnclosedAt(p, i)}

EndsWith(s, t) ==
    /\ Len(t) <= Len(s)
    /\ SubSeq(s, Len(s) - Len(t) + 1, Len(s)) = t

\* C7: a '{timestamp:' opener with no '}' before the next placeholder opener
\* or the end of the pattern makes format_filename warn and stop, returning
\* the pattern's text from that opener on unchanged; a following {ext} is
\* then replaced by the extension, and the placeholders before it are
\* expanded.
C7_MalformedTailUntouched ==
    (fn.pc = "done" /\ Malformed(fn.pattern) # {}) =>
        LET i == Min(Malformed(fn.pattern))
            tail == Slice(fn.pattern, i, Len(fn.pattern))
        IN  /\ fn.warned
            /\ EndsWith(fn.formatted_pattern, tail)
            /\ EndsWith(fn.filename, Replace(tail, ExtPlaceholder, fn.ext))
            /\ ~Contains(Slice(fn.formatted_pattern, 0,
                               Len(fn.formatted_pattern) - Len(tail)), Opener)

-----------------------------------------------------------------------------
(* upload_sftp (lines 124-184) against a remote server                      *)
(*                                                                          *)
(* The server holds a set of directories, each an absolute path given as    *)
(* the sequence of its component names (<<>> is the root).  A relative path *)
(* names a directory under the session's working directory.  Paths inside   *)
(* a directory of `denied` answer every request with a permission error.    *)

Slash == <<"/">>

\* s.strip('/') and s.rstrip('/')
RECURSIVE RStripSlash(_)
RStripSlash(s) ==
    IF s # <<>> /\ s[Len(s)] = "/" THEN RStripSlash(SubSeq(s, 1, Len(s) - 1))
    ELSE s

RECURSIVE LStripSlash(_)
LStripSlash(s) ==
    IF s # <<>> /\ s[1] = "/" THEN LStripSlash(Tail(s)) ELSE s

StripSlash(s) == LStripSlash(RStripSlash(s))

\* s.split('/'): the segments between slashes, empty ones included
RECURSIVE SplitSlash(_)
SplitSlash(s) ==
    LET i == Find(s, Slash, 0)
    IN  IF i = -1 THEN <<s>>
        ELSE <<Slice(s, 0, i)>> \o SplitSlash(Slice(s, i + 1, Len(s)))

RECURSIVE DropEmpty(_)
DropEmpty(segs) ==
    IF segs = <<>> THEN <<>>
    ELSE IF Head(segs) = <<>> THEN DropEmpty(Tail(segs))
    ELSE <<Head(segs)>> \o DropEmpty(Tail(segs))

\* the directory a path string names on the server
Resolve(path, cwd) ==
    IF path # <<>> /\ path[1] = "/" THEN DropEmpty(SplitSlash(path))
    ELSE cwd \o DropEmpty(SplitSlash(path))

Parent(dir) == SubSeq(dir, 1, Len(dir) - 1)

IsPrefix(a, b) == Len(a) <= Len(b) /\ SubSeq(b, 1, Len(a)) = a

Denied(dir, denied) == \E d \in denied : IsPrefix(d, dir)

\* sftp.stat(path): "ok", "missing" (FileNotFoundError) or "denied"
Stat(path, frame) ==
    LET dir == Resolve(path, frame.cwd)
    IN  IF Denied(dir, frame.denied) THEN "denied"
        ELSE IF dir \in frame.dirs THEN "ok"
        ELSE "missing"

\* sftp.mkdir(path) succeeds
CanMkdir(path, frame) ==
    LET dir == Resolve(path, frame.cwd)
    IN  /\ ~Denied(dir, frame.denied)
        /\ dir \notin frame.dirs
        /\ dir # <<>>
        /\ Parent(dir) \in frame.dirs

\* f"{remote_path.rstrip('/')}/{remote_filename}" (line 143)
RemoteFullPath(remote_path, remote_filename) ==
    RStripSlash(remote_path) \o Slash \o remote_filename

\* the directory sftp.putfo(file, remote_full_path) writes into
TargetDir(frame) ==
    Parent(Resolve(RemoteFullPath(frame.remote_path, frame.remote_filename),
                   frame.cwd))

SegA == <<"a">>
SegB == <<"b">>
SegH == <<"h">>

RECURSIVE JoinSlash(_)
JoinSlash(segs) ==
    IF Len(segs) = 1 THEN segs[1]
    ELSE segs[1] \o Slash \o JoinSlash(Tail(segs))

RECURSIVE SegSeqs(_)
SegSeqs(n) ==
    IF n = 1 THEN { <<SegA>>, <<SegB>> }
    ELSE LET shorter == SegSeqs(n - 1)
         IN  shorter \cup { q \o <<g>> : q \in shorter, g \in {SegA, SegB} }

\* SFTP_REMOTE_PATH: absolute or relative, with or without a trailing slash
RemotePaths ==
    { lead \o JoinSlash(q) \o trail :
        lead \in {<<>>, Slash}, q \in SegSeqs(MaxParts), trail \in {<<>>, Slash} }
    \cup { Slash }

InitSftp ==
    /\ MainOff
    /\ fn = FnIdle
    /\ \E port \in PortValues, cfg \in BOOLEAN, rp \in RemotePaths,
          cwd \in { <<>>, <<SegH>> },
          extra \in { {}, {<<SegA>>}, {<<SegH>>, <<SegH, SegA>>} },
          den \in { {}, {<<SegA>>}, {<<SegA, SegB>>}, {<<SegH, SegA>>} } :
          sf = [ pc |-> "call",
                 port_raw |-> port, cfg_ok |-> cfg,
                 remote_path |-> rp, remote_filename |-> <<"f">>,
                 cwd |-> cwd,
                 dirs |-> { <<>>, cwd } \cup extra,
                 denied |-> den,
                 transport |-> "none", sftp |-> "none", closeLog |-> <<>>,
                 parts |-> <<>>, idx |-> 0, current_dir |-> <<>>,
                 walked |-> FALSE, warned |-> FALSE,
                 putAttempted |-> FALSE, putOk |-> FALSE,
                 authFailed |-> FALSE, result |-> "unset", files |-> {} ]

\* lines 126-133: int(SFTP_PORT) stands before the try
SftpConfig ==
    /\ sf.pc = "call"
    /\ LET port == IF sf.port_raw = None
                   THEN [ok |-> TRUE, err |-> "", val |-> 22]
                   ELSE IntParse(sf.port_raw)
       IN  IF ~port.ok THEN sf' = [sf EXCEPT !.pc = "raised"]
           ELSE IF ~sf.cfg_ok
           THEN sf' = [sf EXCEPT !.pc = "returned", !.result = "False"]
           ELSE sf' = [sf EXCEPT !.pc = "transport"]
    /\ UNCHANGED <<mainVars, jobVars, fn>>

\* line 138: paramiko.Transport((host, port)) connects the socket
SftpTransport ==
    /\ sf.pc = "transport"
    /\ \E connected \in BOOLEAN :
          IF connected
          THEN sf' = [sf EXCEPT !.pc = "auth", !.transport = "open"]
          ELSE sf' = [sf EXCEPT !.pc = "finally", !.result = "False"]
    /\ UNCHANGED <<mainVars, jobVars, fn>>

\* line 139, with the handlers of lines 175-180
SftpAuth ==
    /\ sf.pc = "auth"
    /\ \E outcome \in {"ok", "AuthenticationException", "SSHException"} :
          IF outcome = "ok" THEN sf' = [sf EXCEPT !.pc = "session"]
          ELSE sf' = [sf EXCEPT !.pc = "finally", !.result = "False",
                        !.authFailed = (outcome = "AuthenticationException")]
    /\ UNCHANGED <<mainVars, jobVars, fn>>

\* line 140
SftpSession ==
    /\ sf.pc = "session"
    /\ \E opened \in BOOLEAN :
          IF opened
          THEN sf' = [sf EXCEPT !.pc = "probe", !.sftp = "open"]
          ELSE sf' = [sf EXCEPT !.pc = "finally", !.result = "False"]
    /\ UNCHANGED <<mainVars, jobVars, fn>>

\* lines 146-153: the probe of the configured path; a missing directory
\* starts the walk over remote_path.strip('/').split('/')
SftpProbe ==
    /\ sf.pc = "probe"
    /\ LET r == Stat(sf.remote_path, sf)
       IN  IF r = "ok" THEN sf' = [sf EXCEPT !.pc = "upload"]
           ELSE IF r = "missing"
           THEN sf' = [sf EXCEPT !.pc = "walk", !.walked = TRUE,
                         !.parts = SplitSlash(StripSlash(sf.remote_path)),
                         !.idx = 1, !.current_dir = <<>>]
           ELSE sf' = [sf EXCEPT !.pc = "finally", !.result = "False"]
    /\ UNCHANGED <<mainVars, jobVars, fn>>

\* lines 153-161 without the inner try: a failure of the walk reaches the
\* outer handler and ends the call
SftpWalkStepFatal ==
    /\ sf.pc = "walk"
    /\ IF sf.idx > Len(sf.parts) THEN sf' = [sf EXCEPT !.pc = "upload"]
       ELSE LET cur == sf.current_dir \o Slash \o sf.parts[sf.idx]
                r == Stat(cur, sf)
            IN  IF r = "ok"
                THEN sf' = [sf EXCEPT !.current_dir = cur, !.idx = sf.idx + 1]
                ELSE IF r = "missing" /\ CanMkdir(cur, sf)
                THEN sf' = [sf EXCEPT !.current_dir = cur, !.idx = sf.idx + 1,
                              !.dirs = sf.dirs \cup {Resolve(cur, sf.cwd)}]
                ELSE sf' = [sf EXCEPT !.current_dir = cur, !.warned = TRUE,
                              !.pc = "finally", !.result = "False"]
    /\ UNCHANGED <<mainVars, jobVars, fn>>

\* lines 153-161: one pass of the for loop, or its end.  A failed mkdir or a
\* failed probe is caught at line 160 and only logged.
SftpWalkStep ==
    /\ sf.pc = "walk"
    /\ IF sf.idx > Len(sf.parts) THEN sf' = [sf EXCEPT !.pc = "upload"]
       ELSE LET cur == sf.current_dir \o Slash \o sf.parts[sf.idx]
                r == Stat(cur, sf)
            IN  IF r = "ok"
                THEN sf' = [sf EXCEPT !.current_dir = cur, !.idx = sf.idx + 1]
                ELSE IF r = "missing" /\ CanMkdir(cur, sf)
                THEN sf' = [sf EXCEPT !.current_dir = cur, !.idx = sf.idx + 1,
                              !.dirs = sf.dirs \cup {Resolve(cur, sf.cwd)}]
                ELSE sf' = [sf EXCEPT !.current_dir = cur, !.warned = TRUE,
                              !.pc = "upload"]
    /\ UNCHANGED <<mainVars, jobVars, fn>>

\* lines 164-173, with the handler of lines 178-180
SftpUpload ==
    /\ sf.pc = "upload"
    /\ \E sent \in BOOLEAN :
          LET dir == TargetDir(sf)
              ok == sent /\ dir \in sf.dirs /\ ~Denied(dir, sf.denied)
          IN  sf' = [sf EXCEPT !.pc = "finally",
                       !.putAttempted = TRUE, !.putOk = ok,
                       !.result = IF ok THEN "True" ELSE "False",
                       !.files = IF ok
                                 THEN sf.files \cup {dir \o <<sf.remote_filename>>}
                                 ELSE sf.files]
    /\ UNCHANGED <<mainVars, jobVars, fn>>

\* lines 181-184 with the transport closed only inside `if sftp:`
SftpFinallyNested ==
    /\ sf.pc = "finally"
    /\ IF sf.sftp = "open"
       THEN sf' = [sf EXCEPT !.pc = "returned", !.sftp = "closed",
                     !.transport = "closed",
                     !.closeLog = sf.closeLog \o <<"sftp", "transport">>]
       ELSE sf' = [sf EXCEPT !.pc = "returned"]
    /\ UNCHANGED <<mainVars, jobVars, fn>>

\* lines 181-184
SftpFinally ==
    /\ sf.pc = "finally"
    /\ LET a == IF sf.sftp = "open"
                THEN [sf EXCEPT !.sftp = "closed",
                                !.closeLog = sf.closeLog \o <<"sftp">>]
                ELSE sf
           b == IF a.transport = "open"
                THEN [a EXCEPT !.transport = "closed",
                               !.closeLog = a.closeLog \o <<"transport">>]
                ELSE a
       IN  sf' = [b EXCEPT !.pc = "returned"]
    /\ UNCHANGED <<mainVars, jobVars, fn>>

NextSftp ==
    \/ SftpConfig
    \/ SftpTransport
    \/ SftpAuth
    \/ SftpSession
    \/ SftpProbe
    \/ SftpWalkStep
    \/ SftpUpload
    \/ SftpFinally

SpecSftp == InitSftp /\ [][NextSftp]_vars

\* C5: once the transport exists, upload_sftp returns with every session and
\* transport it opened closed, the session first, whatever happened in
\* between; an authentication failure returns False and raises nothing.
C5_SessionAndTransportClosed ==
    /\ sf.pc = "raised" => sf.transport = "none" /\ sf.sftp = "none"
    /\ sf.pc = "returned" =>
          /\ sf.transport # "open"
          /\ sf.sftp # "open"
          /\ sf.closeLog =
                (IF sf.sftp = "closed" THEN <<"sftp">> ELSE <<>>)
                   \o (IF sf.transport = "closed" THEN <<"transport">> ELSE <<>>)
          /\ sf.authFailed => sf.result = "False" /\ sf.transport = "closed"

C5_Witness ==
    /\ sf.pc = "returned"
    /\ sf.authFailed
    /\ sf.result = "False"
    /\ sf.transport = "closed"
    /\ sf.closeLog = <<"transport">>

\* C8: after the configured directory was found missing, a failed mkdir or a
\* failed probe during the walk is only logged: the call goes on to the
\* upload, and what it returns is the upload's outcome.
C8_WalkFailureIsNotFatal ==
    sf.warned =>
        /\ sf.pc \in {"upload", "finally", "returned"}
        /\ sf.pc \in {"finally", "returned"} =>
              /\ sf.putAttempted
              /\ sf.result = (IF sf.putOk THEN "True" ELSE "False")

C8_Witness ==
    /\ sf.pc = "returned"
    /\ sf.walked
    /\ sf.warned
    /\ sf.putAttempted
    /\ sf.idx <= Len(sf.parts)

\* C10: when the walk over a missing remote path ends without an error, the
\* directory the upload writes into is the directory the walk probed and
\* created last, and it exists when the upload starts.
C10_WalkCreatesUploadDirectory ==
    (sf.pc = "upload" /\ sf.walked /\ ~sf.warned) =>
        /\ TargetDir(sf) = Resolve(sf.current_dir, sf.cwd)
        /\ TargetDir(sf) \in sf.dirs

====
